---- MODULE Spec2Model ----
(***************************************************************************)
(* A model of vimtimetap.py: the date-range enumerator, the aggregation    *)
(* dictionary and its regex filter, the path trie and its rendering, the   *)
(* consistency check and the pipeline of main().                           *)
(*                                                                         *)
(* A Python str is a sequence of one-character strings; a dict is the      *)
(* sequence of its (key, value) items in insertion order; a datetime built *)
(* from year, month and day is a record [year, month, day].                *)
(***************************************************************************)
EXTENDS Integers, Sequences, FiniteSets, Bags, TLC

VARIABLES
    pc,                  \* the point the program has reached
    start_date,          \* the first day of the range, NoDate for all time
    end_date,            \* the last day of the range
    database_filenames,  \* the list generated_database_filenames returned
    key_type,            \* the DatabaseDisplayKey in use
    regex,               \* args.filter, NoFilter when not given
    fs,                  \* TIMETAP_DIR: file name -> the lines of the file
    database_dict,       \* the dictionary populate_database_dict fills
    database,            \* the (name, seconds) entries handed to print_database
    raised,              \* the exception that ended the program, NoError if none
    printed,             \* what print_database or check_database printed
    path_trie,           \* the trie of _print_database_as_tree
    tree_entries,        \* the lines _populate_database_tree_entries produced
    visited,             \* history: the bag of lines of the files visited so far
    inserted,            \* history: the entries inserted into the trie so far
    prev_dict,           \* history: database_dict before the last call
    last_op              \* history: the last call made and its arguments

vars ==
    << pc, start_date, end_date, database_filenames, key_type, regex, fs,
       database_dict, database, raised, printed, path_trie, tree_entries,
       visited, inserted, prev_dict, last_op >>

(***************************************************************************)
(* Bounds of the model.                                                    *)
(***************************************************************************)
\* the longest span, in days after the start date, of an enumerated range
MaxSpan == 4

\* the most calls (populate_database_dict or filter_database_dict) made on
\* one dictionary
MaxCalls == 3

\* the most entries inserted into one trie
MaxInserts == 3

(***************************************************************************)
(* Strings.                                                                *)
(***************************************************************************)
\* the characters of the model in code-point order (str comparison, sorted)
Alphabet ==
    << " ", "'", "*", ".", "/", "0", "1", "2", "3", "4", "5", "6", "7", "8", "9",
       "A", "D", "E", "F", "H", "J", "L", "M", "N", "O", "R", "S", "T",
       "a", "b", "c", "d", "e", "f", "g", "l", "m", "n", "o", "p",
       "r", "t", "u", "v", "y" >>

Ord(c) == CHOOSE i \in 1..Len(Alphabet) : Alphabet[i] = c

RECURSIVE StrLess(_, _)
\* s < t for two str: lexicographic by code point, a proper prefix first
StrLess(s, t) ==
    IF t = << >> THEN FALSE
    ELSE IF s = << >> THEN TRUE
    ELSE IF Head(s) = Head(t) THEN StrLess(Tail(s), Tail(t))
    ELSE Ord(Head(s)) < Ord(Head(t))

\* s[i:j] of Python for 0 <= i, j (0-based, j exclusive)
Slice(s, i, j) ==
    LET hi == IF j > Len(s) THEN Len(s) ELSE j
    IN  IF i >= hi THEN << >> ELSE SubSeq(s, i + 1, hi)

\* s.rfind(c) + 1: the 1-based position of the last c in s, 0 when absent
RFind1(s, c) ==
    LET hits == {i \in 1..Len(s) : s[i] = c}
    IN  IF hits = {} THEN 0 ELSE CHOOSE i \in hits : \A j \in hits : j <= i

DigitChars == << "0", "1", "2", "3", "4", "5", "6", "7", "8", "9" >>

DigitChar(n) == DigitChars[n + 1]

\* "%02d" of a number below 100
Digits2(n) == << DigitChar(n \div 10), DigitChar(n % 10) >>

\* "%Y" of a year from 1000 to 9999
Digits4(n) == Digits2(n \div 100) \o Digits2(n % 100)

IsDigit(c) == \E i \in 1..10 : DigitChars[i] = c

DigitValue(c) == (CHOOSE i \in 1..10 : DigitChars[i] = c) - 1

IsNumber(s) == s # << >> /\ \A i \in 1..Len(s) : IsDigit(s[i])

RECURSIVE ParseInt(_)
\* int(s) of a str of decimal digits
ParseInt(s) ==
    IF s = << >> THEN 0
    ELSE 10 * ParseInt(SubSeq(s, 1, Len(s) - 1)) + DigitValue(s[Len(s)])

(***************************************************************************)
(* Sums.                                                                   *)
(***************************************************************************)
RECURSIVE SumUpTo(_, _)
\* seq[1] + ... + seq[n]
SumUpTo(seq, n) == IF n = 0 THEN 0 ELSE seq[n] + SumUpTo(seq, n - 1)

\* sum(seq)
SumSeq(seq) == SumUpTo(seq, Len(seq))

RECURSIVE SumFn(_)
\* the sum of the values of a function of finite domain
SumFn(f) ==
    IF DOMAIN f = {} THEN 0
    ELSE LET x == CHOOSE y \in DOMAIN f : TRUE
         IN  f[x] + SumFn([y \in DOMAIN f \ {x} |-> f[y]])

(***************************************************************************)
(* Dates: datetime(year, month, day), timedelta(days) and strftime.        *)
(***************************************************************************)
NoDate == [year |-> 0, month |-> 0, day |-> 0]

Date(y, m, d) == [year |-> y, month |-> m, day |-> d]

IsLeap(y) == (y % 4 = 0) /\ ((y % 100 # 0) \/ (y % 400 = 0))

DaysInMonth(y, m) ==
    IF m = 2 THEN (IF IsLeap(y) THEN 29 ELSE 28)
    ELSE IF m \in {4, 6, 9, 11} THEN 30 ELSE 31

\* date + timedelta(days=1)
NextDay(d) ==
    IF d.day < DaysInMonth(d.year, d.month) THEN [d EXCEPT !.day = d.day + 1]
    ELSE IF d.month < 12 THEN Date(d.year, d.month + 1, 1)
    ELSE Date(d.year + 1, 1, 1)

\* date - timedelta(days=1)
PrevDay(d) ==
    IF d.day > 1 THEN [d EXCEPT !.day = d.day - 1]
    ELSE IF d.month > 1 THEN Date(d.year, d.month - 1, DaysInMonth(d.year, d.month - 1))
    ELSE Date(d.year - 1, 12, 31)

RECURSIVE AddDays(_, _)
\* date + timedelta(days=k)
AddDays(d, k) ==
    IF k = 0 THEN d
    ELSE IF k > 0 THEN AddDays(NextDay(d), k - 1)
    ELSE AddDays(PrevDay(d), k + 1)

\* date1 < date2
DateLess(a, b) ==
    \/ a.year < b.year
    \/ a.year = b.year /\ a.month < b.month
    \/ a.year = b.year /\ a.month = b.month /\ a.day < b.day

RECURSIVE DaysBeforeMonth(_, _)
DaysBeforeMonth(y, m) ==
    IF m = 1 THEN 0 ELSE DaysBeforeMonth(y, m - 1) + DaysInMonth(y, m - 1)

\* date.toordinal(): the proleptic Gregorian day number, so that
\* (b - a).days = Ordinal(b) - Ordinal(a)
Ordinal(d) ==
    LET y == d.year - 1
    IN  y * 365 + (y \div 4) - (y \div 100) + (y \div 400)
          + DaysBeforeMonth(d.year, d.month) + d.day

MonthAbbr ==
    << <<"J", "a", "n">>, <<"F", "e", "b">>, <<"M", "a", "r">>, <<"A", "p", "r">>,
       <<"M", "a", "y">>, <<"J", "u", "n">>, <<"J", "u", "l">>, <<"A", "u", "g">>,
       <<"S", "e", "p">>, <<"O", "c", "t">>, <<"N", "o", "v">>, <<"D", "e", "c">> >>

\* date.strftime("%Y%m%d")
StrfYmd(d) == Digits4(d.year) \o Digits2(d.month) \o Digits2(d.day)

\* date.strftime("%Y %b %d")
StrfYbd(d) == Digits4(d.year) \o <<" ">> \o MonthAbbr[d.month] \o <<" ">> \o Digits2(d.day)

\* date.strftime("%x"): the program never calls setlocale, so LC_TIME is the
\* C locale, whose %x is %m/%d/%y with a two-digit year
StrfX(d) == Digits2(d.month) \o <<"/">> \o Digits2(d.day) \o <<"/">> \o Digits2(d.year % 100)

_equal_dates(date1, date2) == StrfX(date1) = StrfX(date2)

FULL_DB == <<"f", "u", "l", "l", ".", "d", "b">>

DbName(d) == StrfYmd(d) \o <<".", "d", "b">>

RECURSIVE DatabaseFilenamesLoop(_, _, _)
\* the while loop of generated_database_filenames and the append after it
DatabaseFilenamesLoop(start, end, filenames) ==
    IF ~_equal_dates(start, end)
    THEN DatabaseFilenamesLoop(NextDay(start), end, Append(filenames, DbName(start)))
    ELSE Append(filenames, DbName(start))

generated_database_filenames(start, end) ==
    IF start = NoDate THEN << FULL_DB >>
    ELSE IF DateLess(end, start) THEN << >>
    ELSE DatabaseFilenamesLoop(start, end, << >>)

\* "%Y %b %d" of a YYYYMMDD.db file name, "ALL" for full.db
_parse_date(filename) ==
    IF IsNumber(Slice(filename, 0, 4)) /\ IsNumber(Slice(filename, 4, 6))
         /\ IsNumber(Slice(filename, 6, 8))
    THEN StrfYbd(Date(ParseInt(Slice(filename, 0, 4)), ParseInt(Slice(filename, 4, 6)),
                      ParseInt(Slice(filename, 6, 8))))
    ELSE <<"A", "L", "L">>

(***************************************************************************)
(* Idle values of the variables a specification does not use.              *)
(***************************************************************************)
\* args.filter is None
NoFilter == <<"None">>
NoError == "NoError"
NoOp == [op |-> "none", filename |-> << >>, again |-> FALSE, calls |-> 0]
EmptyTrie == (<< >> :> 0)

(***************************************************************************)
(* Paths: os.path.basename and os.path.splitext, and _parse_filetype.      *)
(***************************************************************************)
\* os.path.basename(path): what follows the last "/"
Basename(path) == Slice(path, RFind1(path, "/"), Len(path))

\* os.path.splitext(path)[1]: from the last "." of the last component, unless
\* only dots come before it in that component
Extension(path) ==
    LET sepIndex == RFind1(path, "/")
        dotIndex == RFind1(path, ".")
    IN  IF /\ dotIndex > sepIndex
           /\ \E i \in (sepIndex + 1)..(dotIndex - 1) : path[i] # "."
        THEN Slice(path, dotIndex - 1, Len(path))
        ELSE << >>

_parse_filetype(path) ==
    LET extension == Extension(path)
        starred == IF extension # << >> THEN <<"*">> \o extension ELSE Basename(path)
    IN  IF starred # << >> THEN starred ELSE <<"O", "T", "H", "E", "R">>

(***************************************************************************)
(* The log files.  A line is a record: "record" lines decode to one path   *)
(* with its total, any other line makes json.loads (or the lookups after   *)
(* it) raise.                                                              *)
(***************************************************************************)
Record(path, total) == [text |-> "record", path |-> path, total |-> total]

Garbage == [text |-> "garbage", path |-> << >>, total |-> 0]

\* a file of TIMETAP_DIR with its lines, and a file that is not there
File(lines) == [exists |-> TRUE, lines |-> lines]

NoFile == [exists |-> FALSE, lines |-> << >>]

\* open(timetap_db): the lines of the file, NoFile when open raises IOError
ReadFile(files, filename) ==
    IF filename \in DOMAIN files THEN files[filename] ELSE NoFile

(***************************************************************************)
(* The dictionary: a sequence of [key, value] items in insertion order.    *)
(***************************************************************************)
Item(key, value) == [key |-> key, value |-> value]

DictKeys(dict) == { dict[i].key : i \in 1..Len(dict) }

DictHas(dict, key) == \E i \in 1..Len(dict) : dict[i].key = key

DictGet(dict, key) == dict[CHOOSE i \in 1..Len(dict) : dict[i].key = key].value

\* DictAdd with the total overwritten instead of added to
DictAdd_Overwrite(dict, key, seconds) ==
    IF DictHas(dict, key)
    THEN [i \in 1..Len(dict) |->
            IF dict[i].key = key THEN Item(key, seconds) ELSE dict[i]]
    ELSE Append(dict, Item(key, seconds))

\* lines 305-308: add to the total of the key, or start it
DictAdd(dict, key, seconds) ==
    IF DictHas(dict, key)
    THEN [i \in 1..Len(dict) |->
            IF dict[i].key = key THEN Item(key, dict[i].value + seconds) ELSE dict[i]]
    ELSE Append(dict, Item(key, seconds))

\* lines 296-303: the key a path is filed under
Filetitle(path, file_date, kt) ==
    IF kt = "DATE" THEN file_date
    ELSE IF kt = "PATH" \/ kt = "TREE" THEN path
    ELSE IF kt = "FILENAME" THEN Basename(path)
    ELSE _parse_filetype(path)

RECURSIVE PopulateLines(_, _, _, _)
\* the loop over the lines of a file; a line that does not decode raises and
\* leaves the totals of the lines before it in the dictionary
PopulateLines(data, dict, file_date, kt) ==
    IF data = << >> THEN [dict |-> dict, raised |-> NoError]
    ELSE IF Head(data).text # "record" THEN [dict |-> dict, raised |-> "ValueError"]
    ELSE PopulateLines(Tail(data),
                       DictAdd(dict, Filetitle(Head(data).path, file_date, kt),
                               Head(data).total),
                       file_date, kt)

\* populate_database_dict without the except IOError clause
populate_database_dict_NoExcept(filename, files, dict, kt) ==
    IF ~ReadFile(files, filename).exists THEN [dict |-> dict, raised |-> "IOError"]
    ELSE PopulateLines(ReadFile(files, filename).lines, dict,
                       IF kt = "DATE" THEN _parse_date(filename) ELSE << >>, kt)

populate_database_dict(filename, files, dict, kt) ==
    IF ~ReadFile(files, filename).exists THEN [dict |-> dict, raised |-> NoError]
    ELSE PopulateLines(ReadFile(files, filename).lines, dict,
                       IF kt = "DATE" THEN _parse_date(filename) ELSE << >>, kt)

(***************************************************************************)
(* Regular expressions.  A pattern is a sequence of tokens: "." any         *)
(* character, ".*" any run of characters, "$" the end, "^" the start,      *)
(* "(" and ")" a group, "\\." a literal dot, any other a literal.          *)
(***************************************************************************)
RECURSIVE GroupsClose(_, _)
\* whether every "(" has its ")" and the other way round
GroupsClose(pattern, open) ==
    IF pattern = << >> THEN open = 0
    ELSE IF Head(pattern) = "(" THEN GroupsClose(Tail(pattern), open + 1)
    ELSE IF Head(pattern) = ")" THEN open > 0 /\ GroupsClose(Tail(pattern), open - 1)
    ELSE GroupsClose(Tail(pattern), open)

\* re.compile(pattern) returns rather than raising re.error
Compiles(pattern) == GroupsClose(pattern, 0)

RECURSIVE MatchFrom(_, _, _)
\* whether the pattern matches the string from position pos + 1 on
MatchFrom(pattern, str, pos) ==
    IF pattern = << >> THEN TRUE
    ELSE LET tok == Head(pattern)
             rest == Tail(pattern)
         IN  IF tok = "(" \/ tok = ")" THEN MatchFrom(rest, str, pos)
             ELSE IF tok = "^" THEN pos = 0 /\ MatchFrom(rest, str, pos)
             ELSE IF tok = "$" THEN pos = Len(str) /\ MatchFrom(rest, str, pos)
             ELSE IF tok = ".*" THEN \E k \in pos..Len(str) : MatchFrom(rest, str, k)
             ELSE IF tok = "." THEN pos < Len(str) /\ MatchFrom(rest, str, pos + 1)
             ELSE IF tok = "\\." THEN
                 pos < Len(str) /\ str[pos + 1] = "." /\ MatchFrom(rest, str, pos + 1)
             ELSE pos < Len(str) /\ str[pos + 1] = tok /\ MatchFrom(rest, str, pos + 1)

\* regex_engine.match(str) is not None: a match that starts at the start
ReMatch(pattern, str) == MatchFrom(pattern, str, 0)

\* KeepMatching with search in place of match: a match anywhere in the key
KeepMatching_Search(dict, pattern) ==
    SelectSeq(dict, LAMBDA item : \E k \in 0..Len(item.key) : MatchFrom(pattern, item.key, k))

\* lines 355-360: the items whose keys match, in their order
KeepMatching(dict, pattern) ==
    SelectSeq(dict, LAMBDA item : ReMatch(pattern, item.key))

\* a filter that does not compile its pattern
filter_database_dict_NoCompile(dict, pattern) ==
    [dict |-> KeepMatching(dict, pattern), raised |-> NoError]

filter_database_dict(dict, pattern) ==
    IF ~Compiles(pattern) THEN [dict |-> dict, raised |-> "re.error"]
    ELSE [dict |-> KeepMatching(dict, pattern), raised |-> NoError]

(***************************************************************************)
(* The path trie.  A node is named by the list of segments that leads to   *)
(* it from the root container, << >>; the trie maps each node to its value, *)
(* and node.goto is the set of nodes one segment longer.                   *)
(***************************************************************************)
RECURSIVE RStripSlash(_)
\* head.rstrip("/")
RStripSlash(str) ==
    IF str # << >> /\ str[Len(str)] = "/" THEN RStripSlash(SubSeq(str, 1, Len(str) - 1))
    ELSE str

\* os.path.split(path)
PathSplit(path) ==
    LET i == RFind1(path, "/")
        head == Slice(path, 0, i)
        tail == Slice(path, i, Len(path))
    IN  [head |-> IF head # << >> /\ (\E k \in 1..Len(head) : head[k] # "/")
                  THEN RStripSlash(head) ELSE head,
         tail |-> tail]

Reverse(seq) == [i \in 1..Len(seq) |-> seq[Len(seq) + 1 - i]]

RECURSIVE DirectoriesLoop(_, _, _)
\* the while loop of _directories_in_path and the append of the root
DirectoriesLoop(head, tail, directories) ==
    IF tail # << >>
    THEN DirectoriesLoop(PathSplit(head).head, PathSplit(head).tail,
                         Append(directories, tail))
    ELSE Append(directories, head)

_directories_in_path(path) ==
    Reverse(DirectoriesLoop(PathSplit(path).head, PathSplit(path).tail, << >>))

\* InsertWalk with a new node made as TrieNode(0)
InsertWalk_NewNodeZero(trie, node, directories, raw_seconds) ==
    LET Walk[k \in 0..Len(directories)] ==
            IF k = 0 THEN trie
            ELSE LET child == node \o SubSeq(directories, 1, k)
                 IN  IF child \in DOMAIN Walk[k - 1]
                     THEN [Walk[k - 1] EXCEPT ![child] = @ + raw_seconds]
                     ELSE Walk[k - 1] @@ (child :> 0)
    IN  Walk[Len(directories)]

RECURSIVE InsertWalk(_, _, _, _)
\* lines 485-491: go down one node per directory, adding the seconds to a
\* node that is there and making one that is not with the seconds
InsertWalk(trie, node, directories, raw_seconds) ==
    IF directories = << >> THEN trie
    ELSE LET child == Append(node, Head(directories))
         IN  IF child \in DOMAIN trie
             THEN InsertWalk([trie EXCEPT ![child] = @ + raw_seconds], child,
                             Tail(directories), raw_seconds)
             ELSE InsertWalk(trie @@ (child :> raw_seconds), child,
                             Tail(directories), raw_seconds)

\* lines 483-491: one turn of the loop over the database
TrieInsert(trie, file_path, raw_seconds) ==
    InsertWalk([trie EXCEPT ![<< >>] = @ + raw_seconds], << >>,
               _directories_in_path(file_path), raw_seconds)

\* the keys of node.goto
Goto(trie, node) ==
    { n[Len(n)] : n \in { m \in DOMAIN trie : Len(m) = Len(node) + 1
                                               /\ SubSeq(m, 1, Len(node)) = node } }

\* SortedSegments from the greatest to the least
SortedSegments_Descending(segments) ==
    LET Pick[S \in SUBSET segments] ==
            IF S = {} THEN << >>
            ELSE LET top == CHOOSE x \in S : \A y \in S \ {x} : StrLess(y, x)
                 IN  << top >> \o Pick[S \ {top}]
    IN  Pick[segments]

RECURSIVE SortedSegments(_)
\* sorted(segments)
SortedSegments(segments) ==
    IF segments = {} THEN << >>
    ELSE LET least == CHOOSE x \in segments : \A y \in segments \ {x} : StrLess(x, y)
         IN  << least >> \o SortedSegments(segments \ {least})

_seconds_to_hms(seconds) ==
    [hours |-> (seconds \div 60) \div 60, minutes |-> (seconds \div 60) % 60,
     seconds |-> seconds % 60]

RECURSIVE DecimalLen(_)
\* len(str(n)) for n >= 0
DecimalLen(n) == IF n < 10 THEN 1 ELSE 1 + DecimalLen(n \div 10)

\* len("{}h {:02}m {:02}s ".format(hours, minutes, seconds)) for minutes and
\* seconds below 60
TimeLen(seconds) == DecimalLen(_seconds_to_hms(seconds).hours) + 10

\* " " * n
Spaces(n) == IF n > 0 THEN n ELSE 0

\* one line of the tree: the spaces before the time, the time, the leader
\* ("- " that many times), the directory and the "/" after it; node is not
\* printed: it records the node the line was made for
TreeEntry(trie, node, indent, time_width) ==
    [pad |-> Spaces(time_width - TimeLen(trie[node])),
     time |-> _seconds_to_hms(trie[node]),
     leader |-> indent \div 2,
     directory |-> node[Len(node)],
     slash |-> (Goto(trie, node) # {} /\ indent # 0),
     node |-> node]

tab_width == 2

RECURSIVE PopulateChildren(_, _, _, _, _)
RECURSIVE _populate_database_tree_entries(_, _, _, _)
\* the for loop of _populate_database_tree_entries over the sorted
\* directories left: time_width, once set from the first, stays for the rest
PopulateChildren(trie, node, directories, indent, time_width) ==
    IF directories = << >> THEN << >>
    ELSE LET child == Append(node, Head(directories))
             width == IF time_width = 0 THEN TimeLen(trie[child]) ELSE time_width
         IN  << TreeEntry(trie, child, indent, width) >>
               \o _populate_database_tree_entries(trie, child, indent + tab_width, width)
               \o PopulateChildren(trie, node, Tail(directories), indent, width)

_populate_database_tree_entries(trie, node, indent, time_width) ==
    PopulateChildren(trie, node, SortedSegments(Goto(trie, node)), indent, time_width)

\* the line printed for a trie with no entries: "0h 00m 00s /"
PlaceholderEntry ==
    [pad |-> 0, time |-> _seconds_to_hms(0), leader |-> 0, directory |-> <<"/">>,
     slash |-> FALSE, node |-> << <<"/">> >>]

(***************************************************************************)
(* Sorting, and check_database.                                            *)
(***************************************************************************)
RemoveAt(seq, i) == SubSeq(seq, 1, i - 1) \o SubSeq(seq, i + 1, Len(seq))

RECURSIVE SortedByFilename(_)
\* sorted(entries, key=lambda x: x[0]): ascending, equal keys in their order
SortedByFilename(entries) ==
    IF entries = << >> THEN << >>
    ELSE LET i == CHOOSE n \in 1..Len(entries) :
                    /\ \A m \in 1..Len(entries) :
                          ~StrLess(entries[m].filename, entries[n].filename)
                    /\ \A m \in 1..(n - 1) : entries[m].filename # entries[n].filename
         IN  << entries[i] >> \o SortedByFilename(RemoveAt(entries, i))

RECURSIVE PopulateAll(_, _, _, _)
\* populate_database_dict on each of the file names in turn
PopulateAll(filenames, files, dict, kt) ==
    IF filenames = << >> THEN [dict |-> dict, raised |-> NoError]
    ELSE LET r == populate_database_dict(Head(filenames), files, dict, kt)
         IN  IF r.raised # NoError THEN r
             ELSE PopulateAll(Tail(filenames), files, r.dict, kt)

JoinedEntry(filename, by_date_time, full_time) ==
    [filename |-> filename, by_date |-> by_date_time, full |-> full_time]

RECURSIVE JoinFull(_, _)
\* lines 171-177: set the full time of a file name that is there, add a file
\* name that is not with a by-date time of 0
JoinFull(joined, full_time_per_file) ==
    IF full_time_per_file = << >> THEN joined
    ELSE LET item == Head(full_time_per_file)
         IN  IF \E i \in 1..Len(joined) : joined[i].filename = item.key
             THEN JoinFull([i \in 1..Len(joined) |->
                              IF joined[i].filename = item.key
                              THEN [joined[i] EXCEPT !.full = item.value]
                              ELSE joined[i]],
                           Tail(full_time_per_file))
             ELSE JoinFull(Append(joined, JoinedEntry(item.key, 0, item.value)),
                           Tail(full_time_per_file))

\* lines 166-177
JoinedPerFile(by_date_time_per_file, full_time_per_file) ==
    JoinFull([i \in 1..Len(by_date_time_per_file) |->
                JoinedEntry(by_date_time_per_file[i].key,
                            by_date_time_per_file[i].value, 0)],
             full_time_per_file)

Abs(n) == IF n < 0 THEN -n ELSE n

\* TotalDifference without abs
TotalDifference_Signed(entries) ==
    SumSeq([i \in 1..Len(entries) |-> entries[i].full - entries[i].by_date])

\* lines 180-186: the sum of abs(times[1] - times[0]) over the entries printed
TotalDifference(entries) ==
    SumSeq([i \in 1..Len(entries) |-> Abs(entries[i].full - entries[i].by_date)])

\* check_database with os.listdir(TIMETAP_DIR) returning listing: what it
\* prints, or the exception a line that does not decode raises
check_database(files, listing) ==
    LET by_date == PopulateAll(SelectSeq(listing, LAMBDA filename : filename # FULL_DB),
                               files, << >>, "PATH")
        full == populate_database_dict(FULL_DB, files, << >>, "PATH")
        inconsistent_entries ==
            SortedByFilename(SelectSeq(JoinedPerFile(by_date.dict, full.dict),
                                       LAMBDA entry : entry.by_date # entry.full))
    IN  IF by_date.raised # NoError THEN [raised |-> by_date.raised, printed |-> << >>]
        ELSE IF full.raised # NoError THEN [raised |-> full.raised, printed |-> << >>]
        ELSE [raised |-> NoError,
              printed |-> << [entries |-> inconsistent_entries,
                              total |-> TotalDifference(inconsistent_entries)] >>]

(***************************************************************************)
(* main() from line 81 on, and print_database.                             *)
(***************************************************************************)
RECURSIVE AggregateLoop(_, _, _, _, _)
\* lines 83-92: populate from each file in turn and, in date mode, append the
\* entry of the file's date when the dictionary has one
AggregateLoop(filenames, files, time_per_type, entries, kt) ==
    IF filenames = << >>
    THEN [dict |-> time_per_type, database |-> entries, raised |-> NoError]
    ELSE LET r == populate_database_dict(Head(filenames), files, time_per_type, kt)
             date == _parse_date(Head(filenames))
         IN  IF r.raised # NoError
             THEN [dict |-> r.dict, database |-> entries, raised |-> r.raised]
             ELSE AggregateLoop(Tail(filenames), files, r.dict,
                                IF kt = "DATE" /\ DictHas(r.dict, date)
                                THEN Append(entries, Item(date, DictGet(r.dict, date)))
                                ELSE entries,
                                kt)

\* SortedBySeconds without reverse=True: from least to most time
SortedBySeconds_Ascending(items) ==
    LET Sorted[n \in 0..Len(items)] ==
            IF n = 0 THEN << >>
            ELSE LET before == SelectSeq(Sorted[n - 1], LAMBDA x : x.value <= items[n].value)
                     after == SelectSeq(Sorted[n - 1], LAMBDA x : x.value > items[n].value)
                 IN  before \o << items[n] >> \o after
    IN  Sorted[Len(items)]

RECURSIVE SortedBySeconds(_)
\* sorted(items, key=lambda tup: tup[1], reverse=True): from most to least
\* time, equal times in their order
SortedBySeconds(items) ==
    IF items = << >> THEN << >>
    ELSE LET i == CHOOSE n \in 1..Len(items) :
                    /\ \A m \in 1..Len(items) : items[m].value <= items[n].value
                    /\ \A m \in 1..(n - 1) : items[m].value < items[n].value
         IN  << items[i] >> \o SortedBySeconds(RemoveAt(items, i))

\* lines 100-111: the entries handed to print_database
Arranged(time_per_type, entries, kt) ==
    IF kt = "DATE" THEN entries
    ELSE IF kt = "TREE" THEN time_per_type
    ELSE SortedBySeconds(time_per_type)

\* lines 421-433: a row for each entry in the order given, and the SUM row;
\* the title, the rules and the padding of the rows are left out
print_database(entries) ==
    [rows |-> [i \in 1..Len(entries) |->
                 [filetitle |-> entries[i].key, time |-> _seconds_to_hms(entries[i].value)]],
     sum |-> _seconds_to_hms(SumSeq([i \in 1..Len(entries) |-> entries[i].value]))]

RECURSIVE BuildTrie(_, _)
\* lines 479-491: the trie of the entries
BuildTrie(trie, entries) ==
    IF entries = << >> THEN trie
    ELSE BuildTrie(TrieInsert(trie, Head(entries).key, Head(entries).value), Tail(entries))

\* lines 493-501: the lines of the tree
RenderTrie(trie) ==
    IF _populate_database_tree_entries(trie, << >>, 0, 0) = << >>
    THEN << PlaceholderEntry >>
    ELSE _populate_database_tree_entries(trie, << >>, 0, 0)

RangeIdle ==
    /\ start_date = NoDate /\ end_date = NoDate /\ database_filenames = << >>

DictIdle ==
    /\ key_type = "FILETYPE" /\ regex = NoFilter /\ fs = << >>
    /\ database_dict = << >> /\ database = << >>
    /\ visited = EmptyBag /\ prev_dict = << >> /\ last_op = NoOp

TreeIdle ==
    /\ path_trie = EmptyTrie /\ tree_entries = << >> /\ inserted = << >>

rangeVars == << start_date, end_date, database_filenames >>
dictVars ==
    << key_type, regex, fs, database_dict, database, visited, prev_dict, last_op >>
treeVars == << path_trie, tree_entries, inserted >>

(***************************************************************************)
(* SpecRange: generated_database_filenames on its own.                     *)
(***************************************************************************)
\* the days the enumerated ranges start on: before a month end, a year end, a
\* leap day, the missing leap day of 1900, the leap day of 2000 and a century end
RangeStarts ==
    { Date(2017, 10, 29), Date(2017, 12, 30), Date(2016, 2, 27), Date(2017, 2, 27),
      Date(1900, 2, 27), Date(2000, 2, 27), Date(1999, 12, 30), Date(1899, 12, 29),
      Date(1917, 10, 29) }

\* the same day of the month a hundred years on
CenturyOn(d) == Date(d.year + 100, d.month, d.day)

\* the ends tried for a start: up to MaxSpan days on, the same a century on
\* (but for a 29 February whose year a century before has none: the loop
\* then runs the whole century), and the day before the start
RangeEnds(start) ==
    { AddDays(start, k) : k \in 0..MaxSpan }
      \cup { e \in { AddDays(CenturyOn(start), k) : k \in 0..MaxSpan } :
                ~(e.month = 2 /\ e.day = 29 /\ ~IsLeap(e.year - 100)) }
      \cup { PrevDay(start) }

InitRange ==
    /\ pc = "start"
    /\ start_date \in RangeStarts \cup {NoDate}
    /\ end_date \in IF start_date = NoDate THEN {Date(2017, 11, 2)}
                                            ELSE RangeEnds(start_date)
    /\ database_filenames = << >>
    /\ raised = NoError /\ printed = << >>
    /\ DictIdle /\ TreeIdle

Generate ==
    /\ pc = "start"
    /\ database_filenames' = generated_database_filenames(start_date, end_date)
    /\ pc' = "done"
    /\ UNCHANGED << start_date, end_date, raised, printed, dictVars, treeVars >>

NextRange == Generate

SpecRange == InitRange /\ [][NextRange]_vars

\* C1: for a start date that is present and not after the end date,
\* generated_database_filenames returns (end - start).days + 1 names, the
\* first the start's, the last the end's, each one calendar day after the one
\* before it.
C1_OneNamePerDay ==
    (pc = "done" /\ start_date # NoDate /\ ~DateLess(end_date, start_date)) =>
        /\ Len(database_filenames) = Ordinal(end_date) - Ordinal(start_date) + 1
        /\ database_filenames[1] = DbName(start_date)
        /\ database_filenames[Len(database_filenames)] = DbName(end_date)
        /\ \A i \in 1..(Len(database_filenames) - 1) :
              \E d \in {AddDays(start_date, i - 1)} :
                  /\ database_filenames[i] = DbName(d)
                  /\ database_filenames[i + 1] = DbName(NextDay(d))

(***************************************************************************)
(* The inputs: paths, file contents and filter patterns.                   *)
(***************************************************************************)
P_a_b_py == <<"/", "a", "/", "b", ".", "p", "y">>
P_d_b_py == <<"/", "d", "/", "b", ".", "p", "y">>
P_a_c == <<"/", "a", "/", "c">>
P_a_b == <<"/", "a", "/", "b">>
P_tmp_a == <<"/", "t", "m", "p", "/", "a">>

\* what a log file may hold; NoFile is a file that does not exist
FileContents ==
    { File(<< >>),
      File(<< Record(P_tmp_a, 60) >>),
      File(<< Record(P_a_b_py, 10), Record(P_d_b_py, 20) >>),
      File(<< Record(P_a_c, 20), Record(P_a_b_py, 10), Record(P_a_c, 10) >>),
      File(<< Record(P_d_b_py, 0) >>),
      File(<< Record(P_a_c, 10), Garbage, Record(P_a_b_py, 20) >>) }

KeyTypes == {"DATE", "PATH", "TREE", "FILENAME", "FILETYPE"}

\* "/a/", ".*\.py$", ".*Oct", "b" and the uncompilable "("
Patterns ==
    { <<"/", "a", "/">>, <<".*", "\\.", "p", "y", "$">>, <<".*", "O", "c", "t">>,
      <<"b">>, <<"(">> }

(***************************************************************************)
(* SpecDict: any sequence of populate_database_dict and                    *)
(* filter_database_dict calls on one dictionary.  Each call finds the      *)
(* directory as the environment left it: fs is the directory at the last   *)
(* call, regex the last pattern filtered with.                             *)
(***************************************************************************)
DictNames == { DbName(Date(2017, 10, 31)), FULL_DB }

InitDict ==
    /\ pc = "calls"
    /\ key_type \in KeyTypes
    /\ regex = NoFilter /\ fs = << >>
    /\ database_dict = << >> /\ database = << >>
    /\ visited = EmptyBag /\ prev_dict = << >> /\ last_op = NoOp
    /\ raised = NoError /\ printed = << >>
    /\ RangeIdle /\ TreeIdle

Populate(filename, content) ==
    /\ pc = "calls" /\ raised = NoError /\ last_op.calls < MaxCalls
    /\ fs' = IF content.exists THEN (filename :> content) ELSE << >>
    /\ LET r == populate_database_dict(filename, fs', database_dict, key_type)
       IN  /\ database_dict' = r.dict
           /\ raised' = r.raised
    /\ visited' = visited (+) SetToBag({[filename |-> filename, content |-> content]})
    /\ prev_dict' = database_dict
    /\ last_op' = [op |-> "populate", filename |-> filename, again |-> FALSE,
                   calls |-> last_op.calls + 1]
    /\ UNCHANGED << pc, key_type, regex, database, printed, rangeVars, treeVars >>

Filter(pattern) ==
    /\ pc = "calls" /\ raised = NoError /\ last_op.calls < MaxCalls
    /\ LET r == filter_database_dict(database_dict, pattern)
       IN  /\ database_dict' = r.dict
           /\ raised' = r.raised
    /\ regex' = pattern
    /\ prev_dict' = database_dict
    /\ last_op' = [op |-> "filter", filename |-> << >>,
                   again |-> (last_op.op = "filter" /\ regex = pattern),
                   calls |-> last_op.calls + 1]
    /\ UNCHANGED << pc, key_type, fs, database, printed, visited, rangeVars, treeVars >>

NextDict ==
    \/ \E filename \in DictNames, content \in FileContents \cup {NoFile} :
          Populate(filename, content)
    \/ \E pattern \in Patterns : Filter(pattern)

SpecDict == InitDict /\ [][NextDict]_vars

\* the key the lines of a file are filed under in the mode kt
KeyOfLine(filename, line, kt) ==
    Filetitle(line.path, _parse_date(filename), kt)

\* the seconds of the records of one visit whose path projects to the key
VisitSeconds(visit, key, kt) ==
    SumSeq([i \in 1..Len(visit.content.lines) |->
               IF KeyOfLine(visit.filename, visit.content.lines[i], kt) = key
               THEN visit.content.lines[i].total ELSE 0])

\* the seconds of all records of all visits, a file counted once per visit
RecordedSeconds(key, kt) ==
    SumFn([visit \in BagToSet(visited)
             |-> CopiesIn(visit, visited) * VisitSeconds(visit, key, kt)])

\* the keys that some record of some visited file projects to
RecordedKeys(kt) ==
    UNION { { KeyOfLine(visit.filename, visit.content.lines[i], kt) :
                i \in 1..Len(visit.content.lines) } : visit \in BagToSet(visited) }

\* C2: after any sequence of populate_database_dict calls (none of which
\* raised, no filter in between), the dictionary has one item for each key
\* that some record of a visited file projects to, no other, and its value is
\* the sum of the seconds of all those records, a file counted once per visit.
C2_TotalsAreSums ==
    (pc = "calls" /\ raised = NoError /\ regex = NoFilter) =>
        /\ DictKeys(database_dict) = RecordedKeys(key_type)
        /\ \A i, j \in 1..Len(database_dict) :
              database_dict[i].key = database_dict[j].key => i = j
        /\ \A i \in 1..Len(database_dict) :
              database_dict[i].value = RecordedSeconds(database_dict[i].key, key_type)

\* a key has been added to twice, in two files or in two lines
C2_Witness ==
    /\ pc = "calls" /\ raised = NoError /\ regex = NoFilter
    /\ last_op.calls >= 2
    /\ \E i \in 1..Len(database_dict) :
          /\ database_dict[i].value = 40
          /\ \E v, w \in BagToSet(visited) :
                v # w /\ VisitSeconds(v, database_dict[i].key, key_type) > 0
                      /\ VisitSeconds(w, database_dict[i].key, key_type) > 0

\* C3: populate_database_dict on a file that does not exist leaves the
\* dictionary as it was and raises nothing.
C3_MissingFileNoOp ==
    (pc = "calls" /\ last_op.op = "populate" /\ ~ReadFile(fs, last_op.filename).exists) =>
        database_dict = prev_dict /\ raised = NoError

\* a missing file was visited with totals already in the dictionary
C3_Witness ==
    /\ pc = "calls" /\ last_op.op = "populate"
    /\ ~ReadFile(fs, last_op.filename).exists
    /\ Len(prev_dict) >= 2 /\ database_dict = prev_dict

\* C4: after filter_database_dict the dictionary holds exactly the items whose
\* keys the pattern matches from their start, values unchanged; filtering it
\* again with the same pattern removes nothing.
C4_FilterIdempotent ==
    (pc = "calls" /\ last_op.op = "filter" /\ raised = NoError) =>
        /\ DictKeys(database_dict) = { k \in DictKeys(prev_dict) : ReMatch(regex, k) }
        /\ \A i \in 1..Len(database_dict) :
              database_dict[i].value = DictGet(prev_dict, database_dict[i].key)
        /\ filter_database_dict(database_dict, regex).dict = database_dict
        /\ last_op.again => database_dict = prev_dict

\* the same pattern was applied twice in a row, and its first application had
\* removed some keys and kept others
C4_Witness ==
    /\ pc = "calls" /\ last_op.op = "filter" /\ raised = NoError
    /\ last_op.again /\ database_dict # << >>
    /\ DictKeys(database_dict) # RecordedKeys(key_type)


(***************************************************************************)
(* SpecTree: _print_database_as_tree, one entry of the database at a time, *)
(* then the rendering.                                                     *)
(***************************************************************************)
P_a == <<"/", "a">>
P_rel_a_b == <<"a", "/", "b">>

TreePaths == { P_a_b, P_a_c, P_a, P_rel_a_b, P_d_b_py }

TreeSeconds == { 10, 20, 36000 }

InitTree ==
    /\ pc = "insert"
    /\ path_trie = EmptyTrie /\ tree_entries = << >> /\ inserted = << >>
    /\ raised = NoError /\ printed = << >>
    /\ RangeIdle /\ DictIdle

InsertEntry(file_path, raw_seconds) ==
    /\ pc = "insert" /\ Len(inserted) < MaxInserts
    /\ path_trie' = TrieInsert(path_trie, file_path, raw_seconds)
    /\ inserted' = Append(inserted, Item(file_path, raw_seconds))
    /\ UNCHANGED << pc, tree_entries, raised, printed, rangeVars, dictVars >>

Render ==
    /\ pc = "insert"
    /\ tree_entries' = RenderTrie(path_trie)
    /\ pc' = "rendered"
    /\ UNCHANGED << path_trie, inserted, raised, printed, rangeVars, dictVars >>

NextTree ==
    \/ \E file_path \in TreePaths, raw_seconds \in TreeSeconds :
          InsertEntry(file_path, raw_seconds)
    \/ Render

SpecTree == InitTree /\ [][NextTree]_vars

\* whether the list of segments a is the start of the list b
IsPrefix(a, b) == Len(a) <= Len(b) /\ SubSeq(b, 1, Len(a)) = a

\* the pairs << i, node >> of an inserted entry and a node its segment list
\* passes through, the root container among them
Passes ==
    UNION { LET segs == _directories_in_path(inserted[i].key)
            IN  { << i, SubSeq(segs, 1, k) >> : k \in 0..Len(segs) } :
            i \in 1..Len(inserted) }

\* C5: after any sequence of insertions the trie has a node for each start of
\* an inserted entry's segment list and no other, each node holds the sum of
\* the seconds of the entries passing through it, and the root holds the sum
\* of all.
C5_NodeSums ==
    LET passes == Passes
    IN  /\ DOMAIN path_trie = { << >> } \cup { p[2] : p \in passes }
        /\ \A node \in DOMAIN path_trie :
              path_trie[node] =
                  SumSeq([i \in 1..Len(inserted) |->
                             IF << i, node >> \in passes THEN inserted[i].value ELSE 0])
        /\ path_trie[<< >>] = SumSeq([i \in 1..Len(inserted) |-> inserted[i].value])

\* three entries went in: two that share a directory and one of another depth
C5_Witness ==
    /\ Len(inserted) = 3
    /\ \E i, j, k \in 1..3 :
          /\ inserted[i].key = P_a_b /\ inserted[j].key = P_a_b /\ i # j
          /\ inserted[k].key = P_a
    /\ path_trie[<< <<"/">>, <<"a">> >>] > path_trie[<< <<"/">>, <<"a">>, <<"b">> >>]

EntrySeconds(entry) ==
    entry.time.hours * 3600 + entry.time.minutes * 60 + entry.time.seconds

\* C8: the rendering of a trie with entries has one line for each node but the
\* root container, with the node's segment and seconds; a node's line comes
\* before those of its descendants, its whole subtree before its next
\* sibling, and siblings come in ascending order of their segments.
C8_PreOrderSorted ==
    (pc = "rendered" /\ inserted # << >>) =>
        /\ { tree_entries[i].node : i \in 1..Len(tree_entries) } = DOMAIN path_trie \ { << >> }
        /\ Len(tree_entries) = Cardinality(DOMAIN path_trie) - 1
        /\ \A i \in 1..Len(tree_entries) :
              /\ tree_entries[i].directory = tree_entries[i].node[Len(tree_entries[i].node)]
              /\ EntrySeconds(tree_entries[i]) = path_trie[tree_entries[i].node]
              /\ tree_entries[i].time.minutes < 60 /\ tree_entries[i].time.seconds < 60
              /\ tree_entries[i].leader = Len(tree_entries[i].node) - 1
        /\ LET nodes == [i \in 1..Len(tree_entries) |-> tree_entries[i].node]
           IN  \A i, j \in 1..Len(tree_entries) :
                  LET a == nodes[i]
                      b == nodes[j]
                  IN  /\ (a # b /\ IsPrefix(a, b)) => i < j
                      /\ (i < j /\ Len(a) = Len(b)
                            /\ SubSeq(a, 1, Len(a) - 1) = SubSeq(b, 1, Len(b) - 1))
                           => StrLess(a[Len(a)], b[Len(b)])
                      /\ (i + 1 < j /\ IsPrefix(a, b)) => IsPrefix(a, nodes[j - 1])

\* /a/b (10 s) and /a/c (20 s) were rendered: / with 30 s, a/ with 30 s, b
\* with 10 s, c with 20 s
C8_Witness ==
    /\ pc = "rendered"
    /\ inserted = << Item(P_a_c, 20), Item(P_a_b, 10) >>
    /\ [i \in 1..Len(tree_entries) |->
           << tree_entries[i].directory, EntrySeconds(tree_entries[i]) >>]
         = << << <<"/">>, 30 >>, << <<"a">>, 30 >>, << <<"b">>, 10 >>, << <<"c">>, 20 >> >>
    /\ tree_entries[2].slash /\ ~tree_entries[3].slash


\* C11: in a rendered tree the time width is that of the first line, and no
\* line has more seconds than that line, so that every line's time fits the
\* width and is padded to it on the left.
C11_RootWidthFits ==
    (pc = "rendered" /\ inserted # << >>) =>
        LET time_width == TimeLen(EntrySeconds(tree_entries[1]))
        IN  \A i \in 1..Len(tree_entries) :
               /\ EntrySeconds(tree_entries[i]) <= EntrySeconds(tree_entries[1])
               /\ TimeLen(EntrySeconds(tree_entries[i])) <= time_width
               /\ tree_entries[i].pad + TimeLen(EntrySeconds(tree_entries[i])) = time_width

\* what does hold of the width: the claim on the tries whose root container
\* has one node under it (all paths absolute, or all relative)
C11_OneTopLevelNode ==
    Cardinality(Goto(path_trie, << >>)) <= 1 => C11_RootWidthFits

(***************************************************************************)
(* SpecCheck: check_database on a directory of two daily files and the     *)
(* full database, each there or not.                                       *)
(***************************************************************************)
CheckNames == { DbName(Date(2017, 10, 31)), DbName(Date(2017, 11, 1)), FULL_DB }

\* the directories: each name with some contents, or absent
Directories ==
    UNION { [names -> FileContents] : names \in SUBSET CheckNames }

\* the orders os.listdir may return the names of a directory in
Listings(files) ==
    { listing \in [1..Cardinality(DOMAIN files) -> DOMAIN files] :
        \A i, j \in DOMAIN listing : listing[i] = listing[j] => i = j }

InitCheck ==
    /\ pc = "start"
    /\ fs \in Directories
    /\ key_type = "PATH" /\ regex = NoFilter
    /\ database_dict = << >> /\ database = << >>
    /\ visited = EmptyBag /\ prev_dict = << >> /\ last_op = NoOp
    /\ raised = NoError /\ printed = << >>
    /\ RangeIdle /\ TreeIdle

CheckDatabase(listing) ==
    /\ pc = "start"
    /\ LET r == check_database(fs, listing)
       IN  /\ raised' = r.raised
           /\ printed' = r.printed
    /\ pc' = "checked"
    /\ UNCHANGED << key_type, regex, fs, database_dict, database, visited, prev_dict,
                    last_op, rangeVars, treeVars >>

NextCheck == \E listing \in Listings(fs) : CheckDatabase(listing)

SpecCheck == InitCheck /\ [][NextCheck]_vars

\* the seconds of the records for a path in the files of the given names
SecondsIn(names, path) ==
    SumFn([name \in names |->
             SumSeq([i \in 1..Len(fs[name].lines) |->
                        IF fs[name].lines[i].path = path
                        THEN fs[name].lines[i].total ELSE 0])])

DaySum(path) == SecondsIn(DOMAIN fs \ {FULL_DB}, path)

MasterSum(path) == SecondsIn(DOMAIN fs \cap {FULL_DB}, path)

\* the paths of all records of all files of the directory
PathsOnDisk ==
    UNION { { fs[name].lines[i].path : i \in 1..Len(fs[name].lines) } : name \in DOMAIN fs }

\* C6: check_database prints exactly the paths whose seconds summed over the
\* daily files differ from their seconds in full.db (a path absent from a side
\* counting 0 there), each with (daySum, masterSum), in ascending order of
\* path, and a TOTAL that is the sum of |masterSum - daySum| over them; with
\* no records on either side it prints no path and a TOTAL of 0.
C6_ReportsDifferences ==
    (pc = "checked" /\ raised = NoError) =>
        LET entries == printed[1].entries
        IN  /\ { entries[i].filename : i \in 1..Len(entries) }
                 = { path \in PathsOnDisk : DaySum(path) # MasterSum(path) }
            /\ \A i \in 1..Len(entries) :
                  /\ entries[i].by_date = DaySum(entries[i].filename)
                  /\ entries[i].full = MasterSum(entries[i].filename)
            /\ \A i \in 1..(Len(entries) - 1) :
                  StrLess(entries[i].filename, entries[i + 1].filename)
            /\ printed[1].total =
                  SumFn([path \in { q \in PathsOnDisk : DaySum(q) # MasterSum(q) } |->
                           Abs(MasterSum(path) - DaySum(path))])
            /\ PathsOnDisk = {} => (entries = << >> /\ printed[1].total = 0)

\* two paths were reported, one with more seconds by date and one with more
\* in full.db, and a third path, equal on both sides, was not
C6_Witness ==
    /\ pc = "checked" /\ raised = NoError
    /\ Len(printed[1].entries) = 2
    /\ printed[1].entries[1].by_date > printed[1].entries[1].full
    /\ printed[1].entries[2].by_date < printed[1].entries[2].full
    /\ Cardinality(PathsOnDisk) = 3


(***************************************************************************)
(* SpecMain: main() from the resolved range, display key and filter on:    *)
(* the aggregation loop, the filter, the display.                          *)
(***************************************************************************)
\* the last day of the ranges of SpecMain
MainEnd == Date(2017, 11, 2)

\* what a daily file of a range may hold
DailyContents ==
    { File(<< >>),
      File(<< Record(P_tmp_a, 60) >>),
      File(<< Record(P_a_b_py, 10), Record(P_d_b_py, 20) >>) }

\* the ranges with the directories tried for each: up to MaxSpan days back
\* from MainEnd with any of the days' files there or not; all time with
\* full.db there or not; a range of a hundred years with the files of its
\* first and last day
MainInputs ==
    UNION { { [start |-> AddDays(MainEnd, -k), end |-> MainEnd, files |-> files] :
                files \in UNION { [names -> DailyContents] :
                                  names \in SUBSET { DbName(AddDays(MainEnd, -j)) : j \in 0..k } } } :
            k \in 0..MaxSpan }
      \cup { [start |-> NoDate, end |-> MainEnd, files |-> files] :
               files \in UNION { [names -> FileContents] : names \in SUBSET {FULL_DB} } }
      \cup { [start |-> Date(1917, 11, 2), end |-> MainEnd, files |-> files] :
               files \in [{ DbName(Date(1917, 11, 2)), DbName(MainEnd) } -> DailyContents] }

\* "/a/", ".*Oct" and the uncompilable "("
MainPatterns == { <<"/", "a", "/">>, <<".*", "O", "c", "t">>, <<"(">> }

InitMain ==
    /\ pc = "start"
    /\ \E input \in MainInputs :
          /\ start_date = input.start /\ end_date = input.end /\ fs = input.files
    /\ key_type \in KeyTypes
    /\ regex \in MainPatterns \cup {NoFilter}
    /\ database_filenames = << >>
    /\ database_dict = << >> /\ database = << >>
    /\ visited = EmptyBag /\ prev_dict = << >> /\ last_op = NoOp
    /\ raised = NoError /\ printed = << >>
    /\ TreeIdle

\* lines 81-92
Aggregate ==
    /\ pc = "start"
    /\ database_filenames' = generated_database_filenames(start_date, end_date)
    /\ LET r == AggregateLoop(database_filenames', fs, << >>, << >>, key_type)
       IN  /\ database_dict' = r.dict
           /\ database' = r.database
           /\ raised' = r.raised
    /\ pc' = "aggregated"
    /\ UNCHANGED << start_date, end_date, key_type, regex, fs, printed, visited,
                    prev_dict, last_op, treeVars >>

\* lines 94-98
FilterStep ==
    /\ pc = "aggregated" /\ raised = NoError
    /\ IF regex = NoFilter
       THEN UNCHANGED << database_dict, raised >>
       ELSE LET r == filter_database_dict(database_dict, regex)
            IN  /\ database_dict' = r.dict
                /\ raised' = r.raised
    /\ prev_dict' = database_dict
    /\ pc' = "filtered"
    /\ UNCHANGED << key_type, regex, fs, database, printed, visited, last_op,
                    rangeVars, treeVars >>

\* lines 100-119
Display ==
    /\ pc = "filtered" /\ raised = NoError
    /\ database' = Arranged(database_dict, database, key_type)
    /\ IF key_type = "TREE"
       THEN /\ path_trie' = BuildTrie(EmptyTrie, database')
            /\ tree_entries' = RenderTrie(path_trie')
            /\ UNCHANGED printed
       ELSE /\ printed' = << print_database(database') >>
            /\ UNCHANGED << path_trie, tree_entries >>
    /\ pc' = "printed"
    /\ UNCHANGED << key_type, regex, fs, database_dict, raised, visited, inserted,
                    prev_dict, last_op, rangeVars >>

NextMain == Aggregate \/ FilterStep \/ Display

Spec == InitMain /\ [][NextMain]_vars

HmsSeconds(time) == time.hours * 3600 + time.minutes * 60 + time.seconds

\* C7: in path, filename and filetype mode the report has one row for each key
\* of the aggregated and filtered dictionary, with its seconds, in
\* non-increasing order of seconds, and the SUM row is the sum of the rows.
C7_RankedRowsAndSum ==
    (pc = "printed" /\ key_type \in {"PATH", "FILENAME", "FILETYPE"}) =>
        LET rows == printed[1].rows
        IN  /\ Len(rows) = Len(database_dict)
            /\ { rows[i].filetitle : i \in 1..Len(rows) } = DictKeys(database_dict)
            /\ Cardinality({ rows[i].filetitle : i \in 1..Len(rows) }) = Len(rows)
            /\ \A i \in 1..Len(rows) :
                  /\ HmsSeconds(rows[i].time) = DictGet(database_dict, rows[i].filetitle)
                  /\ rows[i].time.minutes < 60 /\ rows[i].time.seconds < 60
            /\ \A i \in 1..(Len(rows) - 1) :
                  HmsSeconds(rows[i].time) >= HmsSeconds(rows[i + 1].time)
            /\ HmsSeconds(printed[1].sum)
                 = SumSeq([i \in 1..Len(rows) |-> HmsSeconds(rows[i].time)])
            /\ printed[1].sum.minutes < 60 /\ printed[1].sum.seconds < 60

\* five daily files, 2017-10-29 to 2017-11-02, each with /tmp/a at 60 s, in
\* path mode: one row /tmp/a 0h 05m 00s and SUM 0h 05m 00s
C7_Witness ==
    /\ pc = "printed" /\ key_type = "PATH" /\ regex = NoFilter
    /\ start_date = Date(2017, 10, 29) /\ end_date = Date(2017, 11, 2)
    /\ fs = [name \in { DbName(AddDays(MainEnd, -j)) : j \in 0..4 } |->
               File(<< Record(P_tmp_a, 60) >>)]
    /\ printed[1].rows = << [filetitle |-> P_tmp_a,
                             time |-> [hours |-> 0, minutes |-> 5, seconds |-> 0]] >>
    /\ printed[1].sum = [hours |-> 0, minutes |-> 5, seconds |-> 0]

\* C9: with a filter pattern, every entry handed to print_database has a key
\* the pattern matches from its start, in every mode.
C9_DisplayedKeysMatch ==
    (pc = "printed" /\ regex # NoFilter) =>
        \A i \in 1..Len(database) : ReMatch(regex, database[i].key)

\* what does hold of the filter: outside date mode every displayed key matches
C9_OutsideDateMode == key_type # "DATE" => C9_DisplayedKeysMatch

\* the day a daily file is named for
DayOfName(name) ==
    Date(ParseInt(Slice(name, 0, 4)), ParseInt(Slice(name, 4, 6)),
         ParseInt(Slice(name, 6, 8)))

\* the names of the daily files of the range that are there with a record
RecordedDays ==
    { name \in DOMAIN fs \ {FULL_DB} :
        /\ fs[name].lines # << >>
        /\ ~DateLess(DayOfName(name), start_date)
        /\ ~DateLess(end_date, DayOfName(name)) }

\* C10: in date mode over a range of days, the entries handed to
\* print_database are one for each day of the range whose file is there with
\* a record, with the sum of the seconds of that file, in increasing order of
\* date, and none for any other day.
C10_DateEntries ==
    (pc = "printed" /\ key_type = "DATE" /\ start_date # NoDate) =>
        /\ { database[i].key : i \in 1..Len(database) }
             = { StrfYbd(DayOfName(name)) : name \in RecordedDays }
        /\ Len(database) = Cardinality(RecordedDays)
        /\ \A i \in 1..Len(database) :
              \E name \in RecordedDays :
                  /\ database[i].key = StrfYbd(DayOfName(name))
                  /\ database[i].value
                       = SumSeq([n \in 1..Len(fs[name].lines) |-> fs[name].lines[n].total])
        /\ \A i, j \in 1..Len(database) :
              i < j => \E a, b \in RecordedDays :
                          /\ database[i].key = StrfYbd(DayOfName(a))
                          /\ database[j].key = StrfYbd(DayOfName(b))
                          /\ DateLess(DayOfName(a), DayOfName(b))

\* what does hold of date mode: the claim on the ranges shorter than a century
C10_ShortRanges == end_date.year - start_date.year < 100 => C10_DateEntries

UncompilablePattern == regex # NoFilter /\ ~Compiles(regex)

====
